---- MODULE Spec2Model ----
(***************************************************************************)
(* Model of the Minesweeper knowledge engine of minesweeper/minesweeper.py *)
(* (classes Minesweeper, Sentence, MinesweeperAI).                         *)
(*                                                                         *)
(* A cell is a pair <<i, j>>.  A Sentence is a record [cells, count].      *)
(* MinesweeperAI.knowledge is a Python list, so it is a sequence here:     *)
(* order and duplicates are kept.  add_knowledge is split at the head of   *)
(* its `while True` loop: AddKnowledge is lines 220-237, and each LoopPass *)
(* is one full iteration of lines 240-269.                                 *)
(***************************************************************************)
EXTENDS Integers, Sequences, FiniteSets, TLC

\* ---------------------------------------------------------------- bounds
\* largest board of the engine exercised by an arbitrary caller
Height == 2
Width == 3
\* board, and number of mines on it, of a game
PlayHeight == 2
PlayWidth == 5
Mines == 5
\* largest count handed to add_knowledge by an arbitrary caller
MaxCount == 2
\* number of public calls made on one engine
MaxCalls == 2
\* number of engine-changing calls in the runs checked for termination
MaxLoopCalls == 2
\* number of reveals in one game played against a board
MaxReveals == 4
\* number of method calls made on one Sentence of its own
MaxSentenceCalls == 1
\* longest list of labels handed to shopping's evaluate
MaxLen == 4
\* number of add_knowledge calls made before the caller marks a mine
MaxMarkAdds == 2

\* Python's None
None == <<>>

VARIABLES
    height,      \* MinesweeperAI.height (the Minesweeper board has the same)
    width,       \* MinesweeperAI.width
    board,       \* Minesweeper.mines: the cells of the board that hold a mine
    moves_made,  \* MinesweeperAI.moves_made
    mines,       \* MinesweeperAI.mines
    safes,       \* MinesweeperAI.safes
    knowledge,   \* MinesweeperAI.knowledge, a list of Sentences
    pc,          \* "idle": no call in progress; "loop": at the head of the while loop
    lastOp,      \* the public call in progress or last returned, with its arguments
    result,      \* the value returned by the last make_*_move
    calls,       \* number of public calls made so far
    sentence,    \* a Sentence object of its own, outside any MinesweeperAI
    labels,      \* shopping: the `labels` argument of evaluate
    predictions, \* shopping: the `predictions` argument of evaluate
    evaluation   \* shopping: the outcome of evaluate(labels, predictions)

vars == <<height, width, board, moves_made, mines, safes, knowledge, pc, lastOp, result, calls,
          sentence, labels, predictions, evaluation>>

Cells == (0 .. height - 1) \X (0 .. width - 1)

\* ------------------------------------------------------------ Minesweeper
Max(a, b) == IF a > b THEN a ELSE b
Min(a, b) == IF a < b THEN a ELSE b

\* Minesweeper.nearby_mines: mines within one row and column, cell excluded
nearby_mines(b, cell) ==
    Cardinality({ c \in (cell[1] - 1 .. cell[1] + 1) \X (cell[2] - 1 .. cell[2] + 1) :
                    /\ c # cell
                    /\ 0 <= c[1] /\ c[1] < height /\ 0 <= c[2] /\ c[2] < width
                    /\ c \in b })

\* --------------------------------------------------------------- Sentence
Sentence(cells, count) == [cells |-> cells, count |-> count]

\* known_mines with the comparison loosened to >=
known_mines_loose(s) == IF Cardinality(s.cells) >= s.count THEN s.cells ELSE {}

known_mines(s) == IF Cardinality(s.cells) = s.count THEN s.cells ELSE {}

\* known_safes with the test of known_mines copied into it
known_safes_copied(s) == IF Cardinality(s.cells) = s.count THEN s.cells ELSE {}

known_safes(s) == IF s.count = 0 THEN s.cells ELSE {}

\* Sentence.mark_mine with the body of mark_safe: the count is left as it was
Sentence_mark_mine_keeps_count(s, cell) ==
    IF cell \in s.cells
    THEN [cells |-> s.cells \ {cell}, count |-> s.count]
    ELSE s

Sentence_mark_mine(s, cell) ==
    IF cell \in s.cells
    THEN [cells |-> s.cells \ {cell}, count |-> s.count - 1]
    ELSE s

\* Sentence.mark_safe with the body of mark_mine: the count is lowered
Sentence_mark_safe_decrements(s, cell) ==
    IF cell \in s.cells
    THEN [cells |-> s.cells \ {cell}, count |-> s.count - 1]
    ELSE s

Sentence_mark_safe(s, cell) ==
    IF cell \in s.cells
    THEN [cells |-> s.cells \ {cell}, count |-> s.count]
    ELSE s

\* ---------------------------------------------------------- MinesweeperAI
\* The engine's data as a record, so that the methods are operators on it.
AI(m, s, k) == [mines |-> m, safes |-> s, knowledge |-> k]

Self == AI(mines, safes, knowledge)

\* MinesweeperAI.mark_mine whose loop stops after the first stored sentence
mark_mine_first_only(st, cell) ==
    [st EXCEPT !.mines = @ \cup {cell},
               !.knowledge = [i \in DOMAIN @ |->
                                 IF i = 1 THEN Sentence_mark_mine(@[i], cell) ELSE @[i]]]

mark_mine(st, cell) ==
    [st EXCEPT !.mines = @ \cup {cell},
               !.knowledge = [i \in DOMAIN @ |-> Sentence_mark_mine(@[i], cell)]]

\* MinesweeperAI.mark_safe that also takes the cell out of `mines`
mark_safe_exclusive(st, cell) ==
    [st EXCEPT !.safes = @ \cup {cell},
               !.mines = @ \ {cell},
               !.knowledge = [i \in DOMAIN @ |-> Sentence_mark_safe(@[i], cell)]]

mark_safe(st, cell) ==
    [st EXCEPT !.safes = @ \cup {cell},
               !.knowledge = [i \in DOMAIN @ |-> Sentence_mark_safe(@[i], cell)]]

\* `for mine in mines_to_mark: self.mark_mine(mine)`: the loop variable is bound
\* to one element of S, in some order, until S is used up
RECURSIVE mark_mines(_, _)
mark_mines(st, S) ==
    IF S = {} THEN st
    ELSE CHOOSE r \in { mark_mines(mark_mine(st, mine), S \ {mine}) :
                           mine \in {CHOOSE x \in S : TRUE} } : TRUE

\* `for safe in safes_to_mark: self.mark_safe(safe)`
RECURSIVE mark_safes(_, _)
mark_safes(st, S) ==
    IF S = {} THEN st
    ELSE CHOOSE r \in { mark_safes(mark_safe(st, safe), S \ {safe}) :
                           safe \in {CHOOSE x \in S : TRUE} } : TRUE

\* `x in list`, by Sentence.__eq__
InList(s, kn) == \E i \in DOMAIN kn : kn[i] = s

KeepSentence(s) ==
    /\ Cardinality(s.cells) # 0
    /\ s.count # 0
    /\ s.count <= Cardinality(s.cells)

clean_up_knowledge(kn) == SelectSeq(kn, KeepSentence)

\* new_sentences after the first p iterations of the nested loops, where
\* iteration p pairs sentence1 = kn[(p-1) \div n + 1], sentence2 = kn[(p-1) % n + 1]
RECURSIVE new_sentences(_, _)
new_sentences(kn, p) ==
    IF p = 0 THEN <<>>
    ELSE LET n         == Len(kn)
             prev      == new_sentences(kn, p - 1)
             sentence1 == kn[((p - 1) \div n) + 1]
             sentence2 == kn[((p - 1) % n) + 1]
             new_cells == sentence2.cells \ sentence1.cells
             new_count == sentence2.count - sentence1.count
         IN  IF /\ sentence1 # sentence2
                /\ sentence1.cells \subseteq sentence2.cells
                /\ new_count >= 0
                /\ new_cells # {}
                /\ ~InList(Sentence(new_cells, new_count), kn)
             THEN Append(prev, Sentence(new_cells, new_count))
             ELSE prev

infer_from_subset(kn) == kn \o new_sentences(kn, Len(kn) * Len(kn))

\* neighbor_cells of add_knowledge before the filter (lines 223-227)
Neighbors(cell) ==
    { c \in (Max(0, cell[1] - 1) .. Min(height, cell[1] + 2) - 1)
            \X (Max(0, cell[2] - 1) .. Min(width, cell[2] + 2) - 1) : c # cell }

\* neighbor_cells with the filter of lines 229-230 left out
neighbor_cells_unfiltered(st, cell) == Neighbors(cell)

\* neighbor_cells after the filter (lines 229-230); st is the engine after mark_safe(cell)
neighbor_cells(st, cell) ==
    { c \in Neighbors(cell) : c \notin st.safes /\ c \notin st.mines }

\* line 232: the sum runs over the already filtered neighbor_cells
mine_count(st, cell, count) ==
    count - Cardinality({ c \in neighbor_cells(st, cell) : c \in st.mines })

\* add_sentence without the mark_safe(cell) of line 221
add_sentence_unmarked(st, cell, count) ==
    LET nc == neighbor_cells(st, cell)
    IN  IF nc # {}
        THEN [st EXCEPT !.knowledge = Append(@, Sentence(nc, mine_count(st, cell, count)))]
        ELSE st

\* lines 221-237 of add_knowledge
add_sentence(st, cell, count) ==
    LET st1 == mark_safe(st, cell)
        nc  == neighbor_cells(st1, cell)
    IN  IF nc # {}
        THEN [st1 EXCEPT !.knowledge = Append(@, Sentence(nc, mine_count(st1, cell, count)))]
        ELSE st1

\* lines 242-251
mines_to_mark(st) ==
    UNION { known_mines(st.knowledge[i]) : i \in DOMAIN st.knowledge } \ st.mines

safes_to_mark(st) ==
    UNION { known_safes(st.knowledge[i]) : i \in DOMAIN st.knowledge } \ st.safes

\* lines 253-259: the engine after both marking loops
after_marks(st) == mark_safes(mark_mines(st, mines_to_mark(st)), safes_to_mark(st))

\* the list that clean_up_knowledge filters in this pass (after line 262);
\* the engine after the marks is bound once, then handed to infer_from_subset
before_clean_up(st) ==
    CHOOSE kn \in { infer_from_subset(marked.knowledge) : marked \in {after_marks(st)} } : TRUE

\* the engine after one iteration of the while loop (lines 240-263)
loop_body(st) ==
    [after_marks(st) EXCEPT !.knowledge = clean_up_knowledge(before_clean_up(st))]

\* knowledge_changed with old_knowledge_len compared before clean_up_knowledge ran
knowledge_changed_early(st) ==
    \/ mines_to_mark(st) # {}
    \/ safes_to_mark(st) # {}
    \/ Len(before_clean_up(st)) # Len(after_marks(st).knowledge)

\* knowledge_changed at line 268
knowledge_changed(st) ==
    \/ mines_to_mark(st) # {}
    \/ safes_to_mark(st) # {}
    \/ Len(loop_body(st).knowledge) # Len(after_marks(st).knowledge)

\* the engine when the while loop of add_knowledge exits
RECURSIVE run_loop(_)
run_loop(st) == IF knowledge_changed(st) THEN run_loop(loop_body(st)) ELSE loop_body(st)

\* make_safe_move without the moves_made test
safe_moves_unfiltered == { c \in safes : TRUE }

\* lines 280-283: iteration over a set, so any eligible cell may come first
safe_moves == { c \in safes : c \notin moves_made }

\* make_random_move without the mines test
available_moves_with_mines == { c \in Cells : c \notin moves_made }

\* lines 292-296
available_moves == { c \in Cells : c \notin moves_made /\ c \notin mines }

\* --------------------------------------------------------------- shopping
\* the four counters of evaluate after the iterations index = 0 .. n - 1 of its
\* for loop; Python's labels[index] is lab[index + 1] here
RECURSIVE amounts(_, _, _)
amounts(lab, pred, n) ==
    IF n = 0
    THEN [label_positive_amount |-> 0, label_negative_amount |-> 0,
          pred_positive_amount |-> 0, pred_negative_amount |-> 0]
    ELSE LET prev       == amounts(lab, pred, n - 1)
             label      == lab[n]
             prediction == pred[n]
         IN  [label_positive_amount |->
                  prev.label_positive_amount + (IF label = 1 THEN 1 ELSE 0),
              label_negative_amount |->
                  prev.label_negative_amount + (IF label = 0 THEN 1 ELSE 0),
              pred_positive_amount |->
                  prev.pred_positive_amount
                      + (IF label = 1 /\ prediction = 1 THEN 1 ELSE 0),
              pred_negative_amount |->
                  prev.pred_negative_amount
                      + (IF label = 0 /\ prediction = 0 THEN 1 ELSE 0)]

\* len(range(0, len(predictions) - 1))
iterations(pred) == Max(0, Len(pred) - 1)

\* float(a) / float(b) for counters a, b with b # 0, kept as the fraction <<a, b>>:
\* two such quotients are the same float exactly when the fractions are equal
Quotient(a, b) == <<a, b>>

\* evaluate has not been called
NotEvaluated == [outcome |-> "pending", sensitivity |-> None, specificity |-> None]

\* evaluate(labels, predictions): the returned tuple, or the ZeroDivisionError
\* that either division raises on a zero divisor
evaluate(lab, pred) ==
    LET a == amounts(lab, pred, iterations(pred))
    IN  IF a.label_positive_amount = 0 \/ a.label_negative_amount = 0
        THEN [outcome |-> "ZeroDivisionError", sensitivity |-> None, specificity |-> None]
        ELSE [outcome     |-> "return",
              sensitivity |-> Quotient(a.pred_positive_amount, a.label_positive_amount),
              specificity |-> Quotient(a.pred_negative_amount, a.label_negative_amount)]

\* ------------------------------------------------------------------ state
Fresh == moves_made = {} /\ mines = {} /\ safes = {} /\ knowledge = <<>>

Op(op, cell, count) == [op |-> op, cell |-> cell, count |-> count, fresh |-> Fresh]

\* MinesweeperAI.__init__(height, width) for any board size up to Height x Width;
\* the engine is exercised on its own, no Minesweeper board is involved
Init ==
    /\ height \in 1 .. Height
    /\ width \in 1 .. Width
    /\ board = {}
    /\ moves_made = {}
    /\ mines = {}
    /\ safes = {}
    /\ knowledge = <<>>
    /\ pc = "idle"
    /\ lastOp = [op |-> "init", cell |-> None, count |-> 0, fresh |-> TRUE]
    /\ result = None
    /\ calls = 0
    /\ sentence = Sentence({}, 0)
    /\ labels = <<>>
    /\ predictions = <<>>
    /\ evaluation = NotEvaluated

\* MinesweeperAI.__init__(Height, Width): the largest board only
InitFull == Init /\ height = Height /\ width = Width

\* a game: Minesweeper.__init__ has placed `Mines` mines, then MinesweeperAI.__init__
InitPlay ==
    /\ height = PlayHeight
    /\ width = PlayWidth
    /\ board \in { b \in SUBSET ((0 .. PlayHeight - 1) \X (0 .. PlayWidth - 1)) :
                      Cardinality(b) = Mines }
    /\ moves_made = {}
    /\ mines = {}
    /\ safes = {}
    /\ knowledge = <<>>
    /\ pc = "idle"
    /\ lastOp = [op |-> "init", cell |-> None, count |-> 0, fresh |-> TRUE]
    /\ result = None
    /\ calls = 0
    /\ sentence = Sentence({}, 0)
    /\ labels = <<>>
    /\ predictions = <<>>
    /\ evaluation = NotEvaluated

SetAI(st) ==
    /\ mines' = st.mines
    /\ safes' = st.safes
    /\ knowledge' = st.knowledge

MarkMine(cell) ==
    /\ pc = "idle"
    /\ SetAI(mark_mine(Self, cell))
    /\ lastOp' = Op("mark_mine", cell, 0)
    /\ calls' = calls + 1
    /\ UNCHANGED <<sentence, labels, predictions, evaluation, height, width, board, moves_made, pc, result>>

MarkSafe(cell) ==
    /\ pc = "idle"
    /\ SetAI(mark_safe(Self, cell))
    /\ lastOp' = Op("mark_safe", cell, 0)
    /\ calls' = calls + 1
    /\ UNCHANGED <<sentence, labels, predictions, evaluation, height, width, board, moves_made, pc, result>>

\* add_knowledge up to the head of the while loop
Enter(cell, count) ==
    /\ pc = "idle"
    /\ moves_made' = moves_made \cup {cell}
    /\ SetAI(add_sentence(Self, cell, count))
    /\ pc' = "loop"
    /\ lastOp' = Op("add_knowledge", cell, count)
    /\ calls' = calls + 1
    /\ UNCHANGED <<sentence, labels, predictions, evaluation, height, width, board, result>>

\* add_knowledge called by an arbitrary caller
AddKnowledge(cell, count) == Enter(cell, count)

\* add_knowledge called by the game loop: a revealed cell that is not a mine,
\* with the count Minesweeper.nearby_mines reports for it
Reveal(cell) ==
    /\ cell \notin board
    /\ Enter(cell, nearby_mines(board, cell))

\* one iteration of the while loop; it breaks when nothing changed
LoopPass ==
    /\ pc = "loop"
    /\ \E next \in {loop_body(Self)} : SetAI(next)
    /\ pc' = IF knowledge_changed(Self) THEN "loop" ELSE "idle"
    /\ UNCHANGED <<sentence, labels, predictions, evaluation, height, width, board, moves_made, lastOp, result, calls>>

MakeSafeMove ==
    /\ pc = "idle"
    /\ \/ \E c \in safe_moves : result' = c
       \/ safe_moves = {} /\ result' = None
    /\ lastOp' = Op("make_safe_move", None, 0)
    /\ calls' = calls + 1
    /\ UNCHANGED <<sentence, labels, predictions, evaluation, height, width, board, moves_made, mines, safes, knowledge, pc>>

MakeRandomMove ==
    /\ pc = "idle"
    /\ \/ \E c \in available_moves : result' = c
       \/ available_moves = {} /\ result' = None
    /\ lastOp' = Op("make_random_move", None, 0)
    /\ calls' = calls + 1
    /\ UNCHANGED <<sentence, labels, predictions, evaluation, height, width, board, moves_made, mines, safes, knowledge, pc>>

\* infer_from_subset called directly: the method is not private, and a direct
\* call runs no marks and no clean_up_knowledge
InferFromSubset ==
    /\ pc = "idle"
    /\ knowledge' = infer_from_subset(knowledge)
    /\ lastOp' = Op("infer_from_subset", None, 0)
    /\ calls' = calls + 1
    /\ UNCHANGED <<sentence, labels, predictions, evaluation, height, width, board, moves_made, mines, safes, pc, result>>

\* clean_up_knowledge called directly
CleanUpKnowledge ==
    /\ pc = "idle"
    /\ knowledge' = clean_up_knowledge(knowledge)
    /\ lastOp' = Op("clean_up_knowledge", None, 0)
    /\ calls' = calls + 1
    /\ UNCHANGED <<sentence, labels, predictions, evaluation, height, width, board, moves_made, mines, safes, pc, result>>

\* any caller, any arguments: at most MaxCalls public calls on the engine
Next ==
    \/ \E cell \in Cells : calls < MaxCalls /\ MarkMine(cell)
    \/ \E cell \in Cells : calls < MaxCalls /\ MarkSafe(cell)
    \/ \E cell \in Cells, count \in 0 .. MaxCount :
           calls < MaxCalls /\ AddKnowledge(cell, count)
    \/ calls < MaxCalls /\ MakeSafeMove
    \/ calls < MaxCalls /\ MakeRandomMove
    \/ calls < MaxCalls /\ InferFromSubset
    \/ calls < MaxCalls /\ CleanUpKnowledge
    \/ LoopPass

Spec == Init /\ [][Next]_vars

\* the calls that change the engine, at most MaxLoopCalls of them
NextLoop ==
    \/ \E cell \in Cells : calls < MaxLoopCalls /\ MarkMine(cell)
    \/ \E cell \in Cells : calls < MaxLoopCalls /\ MarkSafe(cell)
    \/ \E cell \in Cells, count \in 0 .. MaxCount :
           calls < MaxLoopCalls /\ AddKnowledge(cell, count)
    \/ calls < MaxLoopCalls /\ InferFromSubset
    \/ calls < MaxLoopCalls /\ CleanUpKnowledge
    \/ LoopPass

\* the while loop is sequential code: once entered, it keeps iterating
FairSpec == InitFull /\ [][NextLoop]_vars /\ WF_vars(LoopPass)

\* a game: at most MaxReveals reveals of cells that are not mines
NextPlay ==
    \/ \E cell \in Cells : calls < MaxReveals /\ Reveal(cell)
    \/ LoopPass

SpecPlay == InitPlay /\ [][NextPlay]_vars

\* a caller that makes at most MaxMarkAdds calls that hand over observations
\* or work on the stored sentences, on the largest board, and then marks one
\* cell as a mine, which ends the run
NextMark ==
    \/ \E cell \in Cells, count \in 0 .. MaxCount :
           /\ calls < MaxMarkAdds
           /\ lastOp.op # "mark_mine"
           /\ AddKnowledge(cell, count)
    \/ calls < MaxMarkAdds /\ lastOp.op # "mark_mine" /\ InferFromSubset
    \/ calls < MaxMarkAdds /\ lastOp.op # "mark_mine" /\ CleanUpKnowledge
    \/ \E cell \in Cells : lastOp.op # "mark_mine" /\ MarkMine(cell)
    \/ LoopPass

SpecMark == InitFull /\ [][NextMark]_vars

\* Sentence(cells, count) constructed on its own, for any cells of the largest
\* board and any count an arbitrary caller hands over
InitSentence ==
    /\ height = Height
    /\ width = Width
    /\ board = {}
    /\ moves_made = {}
    /\ mines = {}
    /\ safes = {}
    /\ knowledge = <<>>
    /\ pc = "idle"
    /\ lastOp = [op |-> "init", cell |-> None, count |-> 0, fresh |-> TRUE]
    /\ result = None
    /\ calls = 0
    /\ sentence \in { Sentence(cells, count) : cells \in SUBSET Cells, count \in 0 .. MaxCount }
    /\ labels = <<>>
    /\ predictions = <<>>
    /\ evaluation = NotEvaluated

\* a method call on the Sentence, with the receiver as it was when called
SentenceOp(op, cell) ==
    [op |-> op, cell |-> cell, count |-> 0, fresh |-> Fresh, self |-> sentence]

\* sentence.mark_mine(cell)
SentenceMarkMine(cell) ==
    /\ sentence' = Sentence_mark_mine(sentence, cell)
    /\ lastOp' = SentenceOp("Sentence.mark_mine", cell)
    /\ calls' = calls + 1
    /\ UNCHANGED <<labels, predictions, evaluation, height, width, board, moves_made,
                   mines, safes, knowledge, pc, result>>

\* sentence.mark_safe(cell)
SentenceMarkSafe(cell) ==
    /\ sentence' = Sentence_mark_safe(sentence, cell)
    /\ lastOp' = SentenceOp("Sentence.mark_safe", cell)
    /\ calls' = calls + 1
    /\ UNCHANGED <<labels, predictions, evaluation, height, width, board, moves_made,
                   mines, safes, knowledge, pc, result>>

\* at most MaxSentenceCalls method calls on one Sentence
NextSentence ==
    \/ \E cell \in Cells : calls < MaxSentenceCalls /\ SentenceMarkMine(cell)
    \/ \E cell \in Cells : calls < MaxSentenceCalls /\ SentenceMarkSafe(cell)

SpecSentence == InitSentence /\ [][NextSentence]_vars

\* shopping: the arguments main hands to evaluate are y_test and the model's
\* predictions for X_test, two lists of 0/1 of one length
InitShopping ==
    /\ height = Height
    /\ width = Width
    /\ board = {}
    /\ moves_made = {}
    /\ mines = {}
    /\ safes = {}
    /\ knowledge = <<>>
    /\ pc = "idle"
    /\ lastOp = [op |-> "init", cell |-> None, count |-> 0, fresh |-> TRUE]
    /\ result = None
    /\ calls = 0
    /\ sentence = Sentence({}, 0)
    /\ \E n \in 0 .. MaxLen :
           /\ labels \in [1 .. n -> {0, 1}]
           /\ predictions \in [1 .. n -> {0, 1}]
    /\ evaluation = NotEvaluated

\* evaluate(labels, predictions)
Evaluate ==
    /\ evaluation.outcome = "pending"
    /\ evaluation' = evaluate(labels, predictions)
    /\ UNCHANGED <<sentence, labels, predictions, height, width, board, moves_made,
                   mines, safes, knowledge, pc, lastOp, result, calls>>

NextShopping == Evaluate

SpecShopping == InitShopping /\ [][NextShopping]_vars

TypeOK ==
    /\ height \in Nat \ {0}
    /\ width \in Nat \ {0}
    /\ board \subseteq Cells
    /\ moves_made \subseteq Cells
    /\ mines \subseteq Cells
    /\ safes \subseteq Cells
    /\ \A i \in DOMAIN knowledge : knowledge[i].cells \subseteq Cells
    /\ pc \in {"idle", "loop"}
    /\ calls \in Nat
    /\ sentence.cells \subseteq Cells
    /\ sentence.count \in Int
    /\ Len(labels) = Len(predictions)
    /\ \A i \in DOMAIN labels : labels[i] \in {0, 1} /\ predictions[i] \in {0, 1}
    /\ evaluation.outcome \in {"pending", "return", "ZeroDivisionError"}

\* ----------------------------------------------------------------- claims
\* add_knowledge has returned
Returned == pc = "idle" /\ lastOp.op = "add_knowledge"

\* add_knowledge has returned from a call made on a fresh engine
ReturnedFresh == Returned /\ lastOp.fresh

\* the in-bounds Moore neighbourhood of a cell, by coordinate distance
Moore(cell) ==
    { c \in Cells : /\ c # cell
                    /\ c[1] - cell[1] \in -1 .. 1
                    /\ c[2] - cell[2] \in -1 .. 1 }

\* C1 (soundness): in a game where add_knowledge is only called on non-mine
\* cells with the board's true neighbour count, after each call returns every
\* cell of `mines` is a mine of the board and no cell of `safes` is.
C1_Sound == pc = "idle" => (mines \subseteq board /\ safes \cap board = {})

\* C2: after any sequence of public calls, `safes` and `mines` are disjoint.
C2_Disjoint == pc = "idle" => safes \cap mines = {}

\* C3: on a fresh engine, add_knowledge(cell, 0) returns with every in-bounds
\* Moore neighbour of the cell in `safes` and with `mines` still empty.
C3_ZeroCount ==
    (ReturnedFresh /\ lastOp.count = 0)
        => (Moore(lastOp.cell) \subseteq safes /\ mines = {})

C3_Witness ==
    /\ ReturnedFresh
    /\ lastOp.count = 0
    /\ lastOp.cell = <<0, 0>>
    /\ {<<0, 1>>, <<1, 0>>, <<1, 1>>} \subseteq safes

\* C4 (no over-resolution): on a fresh engine, add_knowledge(cell, n) with
\* 0 < n < number of in-bounds neighbours returns with `mines` empty,
\* `safes` = {cell} and `knowledge` holding exactly (neighbours of cell, n).
C4_NoOverResolution ==
    (ReturnedFresh /\ 0 < lastOp.count /\ lastOp.count < Cardinality(Moore(lastOp.cell)))
        => /\ mines = {}
           /\ safes = {lastOp.cell}
           /\ knowledge = <<[cells |-> Moore(lastOp.cell), count |-> lastOp.count]>>

C4_Witness ==
    /\ ReturnedFresh
    /\ lastOp.cell = <<0, 0>>
    /\ lastOp.count = 1
    /\ knowledge = <<[cells |-> {<<0, 1>>, <<1, 0>>, <<1, 1>>}, count |-> 1]>>

\* C5: when, at the head of the fixpoint loop, the knowledge holds A and B with
\* A.cells a proper subset of B.cells and B.count - A.count = |B.cells - A.cells|,
\* then every cell of B.cells - A.cells is in `mines` when the loop has finished.
C5_SubsetReachesMines ==
    pc = "loop" =>
        \A i, j \in DOMAIN knowledge :
            LET A == knowledge[i]
                B == knowledge[j]
            IN  (/\ A.cells \subseteq B.cells
                 /\ A.cells # B.cells
                 /\ B.count - A.count = Cardinality(B.cells \ A.cells))
                    => (B.cells \ A.cells) \subseteq run_loop(Self).mines

\* C6 (termination): the fixpoint loop inside add_knowledge eventually exits.
C6_Terminates == (pc = "loop") ~> (pc = "idle")

\* the loop has returned after more than one pass: every call so far was an
\* add_knowledge, so the mines were marked by the loop, and a pass that marks
\* sets knowledge_changed
C6_Witness ==
    /\ Returned
    /\ calls = Cardinality(moves_made)
    /\ mines # {}

\* C7 (idempotence): in the state in which add_knowledge returns, one more pass
\* of the fixpoint loop changes none of `knowledge`, `safes`, `mines`.
C7_Idempotent == Returned => loop_body(Self) = Self

\* C8: make_safe_move returns a cell of `safes` that is not in `moves_made`
\* whenever there is one, returns None exactly when `safes` is a subset of
\* `moves_made`, and leaves `safes`, `mines`, `moves_made`, `knowledge` unchanged.
C8_SafeMove ==
    [][lastOp'.op = "make_safe_move" =>
        /\ (result' # None => (result' \in safes /\ result' \notin moves_made))
        /\ (result' = None <=> safes \subseteq moves_made)
        /\ UNCHANGED <<safes, mines, moves_made, knowledge>>]_vars

C8_Witness ==
    /\ lastOp.op = "make_safe_move"
    /\ result # None
    /\ result \in safes
    /\ moves_made # {}

\* C9: make_random_move returns an in-bounds cell that is neither in
\* `moves_made` nor in `mines`, returns None exactly when every board cell is
\* in `moves_made` or `mines`, and every cell of that candidate set is a
\* possible result.
C9_RandomMove ==
    /\ lastOp.op = "make_random_move" =>
        /\ (result # None => (result \in Cells /\ result \notin moves_made /\ result \notin mines))
        /\ (result = None <=> Cells \subseteq (moves_made \cup mines))
    /\ pc = "idle" =>
        \A c \in Cells \ (moves_made \cup mines) : ENABLED (MakeRandomMove /\ result' = c)

\* every cell of the board is a move made or a known mine, and None came back
C9_Witness ==
    /\ lastOp.op = "make_random_move"
    /\ result = None
    /\ mines # {}
    /\ moves_made # {}

\* clean_up_knowledge of this pass filters a list that holds a sentence whose
\* count exceeds the size of its cell set
MeetsContradiction ==
    /\ pc = "loop"
    /\ \E i \in DOMAIN before_clean_up(Self) :
           before_clean_up(Self)[i].count > Cardinality(before_clean_up(Self)[i].cells)

\* C10: whenever cleanup meets a stored constraint whose count exceeds the size
\* of its cell set, the engine ends in an error outcome instead of removing the
\* constraint and continuing.
C10_ContradictionSurfaced == [][MeetsContradiction => pc' = "error"]_vars

\* C11: after any sequence of public calls (mark_mine, mark_safe,
\* add_knowledge), every cell of `moves_made` is also in `safes`.
C11_MovesAreSafe == pc = "idle" => moves_made \subseteq safes

\* a cell that was played has afterwards been marked as a mine by the caller
C11_Witness ==
    /\ pc = "idle"
    /\ lastOp.op = "mark_mine"
    /\ lastOp.cell \in moves_made
\* C12: Sentence.mark_mine(c) on a sentence that holds c removes c, keeps all
\* other cells and lowers the count by exactly 1; on a sentence that does not
\* hold c it changes neither the cells nor the count.
C12_SentenceMarkMine ==
    [][lastOp'.op = "Sentence.mark_mine" =>
        IF lastOp'.cell \in sentence.cells
        THEN /\ lastOp'.cell \notin sentence'.cells
             /\ sentence'.cells = sentence.cells \ {lastOp'.cell}
             /\ sentence'.count = sentence.count - 1
        ELSE /\ sentence'.cells = sentence.cells
             /\ sentence'.count = sentence.count]_vars

\* mark_mine has hit a cell of a sentence that holds other cells too
C12_Witness ==
    /\ lastOp.op = "Sentence.mark_mine"
    /\ lastOp.cell \in lastOp.self.cells
    /\ sentence.cells # {}
    /\ sentence.count = lastOp.self.count - 1

\* C13: Sentence.mark_safe(c) on a sentence that holds c removes c, keeps all
\* other cells and leaves the count unchanged; on a sentence that does not
\* hold c it changes neither the cells nor the count.
C13_SentenceMarkSafe ==
    [][lastOp'.op = "Sentence.mark_safe" =>
        IF lastOp'.cell \in sentence.cells
        THEN /\ lastOp'.cell \notin sentence'.cells
             /\ sentence'.cells = sentence.cells \ {lastOp'.cell}
             /\ sentence'.count = sentence.count
        ELSE /\ sentence'.cells = sentence.cells
             /\ sentence'.count = sentence.count]_vars

\* mark_safe has hit a cell of a sentence that holds other cells too
C13_Witness ==
    /\ lastOp.op = "Sentence.mark_safe"
    /\ lastOp.cell \in lastOp.self.cells
    /\ sentence.cells # {}
    /\ sentence.count = lastOp.self.count
\* C14: evaluate(labels, predictions) returns as sensitivity the number of
\* positions of the whole list with label 1 and prediction 1 over the number
\* with label 1, and as specificity the number with label 0 and prediction 0
\* over the number with label 0: every pair, the last one included, is counted.
\* (Fractions are compared by cross multiplication; the lists hold both labels.)
C14_WholeList ==
    LET positives      == { i \in DOMAIN labels : labels[i] = 1 }
        negatives      == { i \in DOMAIN labels : labels[i] = 0 }
        true_positives == { i \in positives : predictions[i] = 1 }
        true_negatives == { i \in negatives : predictions[i] = 0 }
    IN  (evaluation.outcome # "pending" /\ positives # {} /\ negatives # {}) =>
            /\ evaluation.outcome = "return"
            /\ evaluation.sensitivity[1] * Cardinality(positives)
                   = Cardinality(true_positives) * evaluation.sensitivity[2]
            /\ evaluation.specificity[1] * Cardinality(negatives)
                   = Cardinality(true_negatives) * evaluation.specificity[2]
\* C15 (adjusted count): the sentence that add_knowledge(cell, count) adds has
\* as count `count` minus the number of in-bounds neighbours of `cell` that
\* are in `mines` when the call is made, and none of those neighbours is among
\* its cells.
C15_AdjustedCount ==
    [][(pc = "idle" /\ pc' = "loop" /\ Len(knowledge') = Len(knowledge) + 1) =>
          /\ knowledge'[Len(knowledge')].count
                 = lastOp'.count - Cardinality(Moore(lastOp'.cell) \cap mines)
          /\ knowledge'[Len(knowledge')].cells \cap mines = {}]_vars
\* C16 (no information lost at cleanup): a sentence with count 0 and a
\* non-empty cell set, whether it was added by add_knowledge, reduced to count 0
\* by the marks or derived by infer_from_subset, is only dropped by
\* clean_up_knowledge in a pass after which all of its cells are in `safes`.
C16_NoInformationLost ==
    [][pc = "loop" =>
          \A i \in DOMAIN before_clean_up(Self) :
              (/\ before_clean_up(Self)[i].count = 0
               /\ before_clean_up(Self)[i].cells # {})
                  => before_clean_up(Self)[i].cells \subseteq safes']_vars
\* C17 (no duplicate constraints): after any public call has returned,
\* `knowledge` never holds two sentences with the same cells and the same count.
C17_NoDuplicates ==
    pc = "idle" =>
        \A i, j \in DOMAIN knowledge : i # j => knowledge[i] # knowledge[j]
\* C18: after any public call (mark_mine, mark_safe, add_knowledge) has
\* returned, the cells of every sentence in `knowledge` are disjoint from
\* `safes` and from `mines`.
C18_CellsUnresolved ==
    pc = "idle" =>
        \A i \in DOMAIN knowledge :
            /\ knowledge[i].cells \cap safes = {}
            /\ knowledge[i].cells \cap mines = {}

\* add_knowledge was called next to a cell the caller had marked as a mine,
\* and has stored a sentence
C18_Witness ==
    /\ Returned
    /\ moves_made = {lastOp.cell}
    /\ knowledge # <<>>
    /\ Moore(lastOp.cell) \cap mines # {}
\* 0 <= count <= |cells|
WellFormed(s) == 0 <= s.count /\ s.count <= Cardinality(s.cells)

\* C19 (well-formed constraints): in a game where add_knowledge is only called
\* on non-mine cells with the board's true neighbour count, the sentence that
\* add_knowledge adds and every sentence that infer_from_subset derives
\* satisfy 0 <= count <= |cells| when they are created, and so does every
\* sentence stored in `knowledge` when add_knowledge returns.
C19_WellFormed ==
    [][/\ (pc = "idle" /\ pc' = "loop" /\ Len(knowledge') = Len(knowledge) + 1)
              => WellFormed(knowledge'[Len(knowledge')])
       /\ pc = "loop"
              => \A i \in DOMAIN before_clean_up(Self) :
                     i > Len(after_marks(Self).knowledge)
                         => WellFormed(before_clean_up(Self)[i])
       /\ pc' = "idle"
              => \A i \in DOMAIN knowledge' : WellFormed(knowledge'[i])]_vars
\* C20: MinesweeperAI.mark_mine(c) adds c to `mines`, applies
\* Sentence.mark_mine(c) to every stored sentence, so that afterwards no stored
\* sentence holds c, and changes nothing else: `safes`, `moves_made`, the
\* number and order of the stored sentences and every sentence that did not
\* hold c are as before.
C20_MarkMineFrame ==
    [][lastOp'.op = "mark_mine" =>
          /\ mines' = mines \cup {lastOp'.cell}
          /\ safes' = safes
          /\ moves_made' = moves_made
          /\ Len(knowledge') = Len(knowledge)
          /\ \A i \in DOMAIN knowledge :
                 /\ lastOp'.cell \notin knowledge'[i].cells
                 /\ IF lastOp'.cell \in knowledge[i].cells
                    THEN /\ knowledge'[i].cells = knowledge[i].cells \ {lastOp'.cell}
                         /\ knowledge'[i].count = knowledge[i].count - 1
                    ELSE knowledge'[i] = knowledge[i]]_vars

\* mark_mine((1,0)) after add_knowledge((0,0), 1) and add_knowledge((0,2), 1):
\* of the two stored sentences the first held the cell and has lost it, with
\* its count lowered to 0, and the second did not hold it and is as it was
C20_Witness ==
    /\ lastOp.op = "mark_mine"
    /\ lastOp.cell = <<1, 0>>
    /\ moves_made = {<<0, 0>>, <<0, 2>>}
    /\ knowledge = << [cells |-> {<<0, 1>>, <<1, 1>>}, count |-> 0],
                      [cells |-> {<<0, 1>>, <<1, 1>>, <<1, 2>>}, count |-> 1] >>

\* C21 (monotonic resolution): across any sequence of public calls, and across
\* every pass of the fixpoint loop inside add_knowledge, `safes`, `mines` and
\* `moves_made` only grow: a cell once in one of them is never removed from it.
C21_Monotonic ==
    [][/\ safes \subseteq safes'
       /\ mines \subseteq mines'
       /\ moves_made \subseteq moves_made']_vars

\* a second add_knowledge has returned after its loop added to both `mines`
\* and `safes`: more cells are safe than were played, and mines are known
C21_Witness ==
    /\ Returned
    /\ calls = 2
    /\ Cardinality(moves_made) = 2
    /\ mines # {}
    /\ Cardinality(safes) > Cardinality(moves_made)
====
